---- MODULE Spec2Model ----
(***************************************************************************)
(* Conway's Game of Life on a torus: a model of src/src/lib.rs (struct     *)
(* Game, struct BoardSize, make_board, clear_board).                       *)
(*                                                                         *)
(* A board is a Vec<Vec<bool>>: board[x][y], the outer index the column.   *)
(* It is modelled as a function 0..x_size-1 -> (0..y_size-1 -> BOOLEAN).   *)
(***************************************************************************)
EXTENDS Integers, Sequences, FiniteSets

VARIABLES
    x_size,     \* Game.size.x_size
    y_size,     \* Game.size.y_size
    previous,   \* Game.previous
    current,    \* Game.current
    status,     \* "ok", or the panic that ended the last operation
    op,         \* history: the last operation called on the Game
    arg,        \* history: its argument
    out,        \* history: the value it returned, <<>> when it returns nothing
    iters,      \* history: iterate() calls since the scenario was seeded
    trail       \* history: the operations before the last one (seed scenarios)

vars == <<x_size, y_size, previous, current, status, op, arg, out, iters, trail>>

(***************************************************************************)
(* Bounds of the model.                                                    *)
(***************************************************************************)
MaxX == 2          \* Spec: x_size ranges over 0..MaxX
MaxY == 2          \* Spec: y_size ranges over 0..MaxY
MaxPairs == 2      \* longest coordinate sequence given to set / clear_and_set
MaxIters == 2      \* largest argument given to run
MaxStepX == 3      \* SpecStep, SpecTopo: x_size ranges up to MaxStepX
MaxStepY == 3      \* SpecStep, SpecTopo: y_size ranges up to MaxStepY
MaxSteps == 60     \* SpecScenario: iterate() calls after the seeding
MaxSeedCalls == 2  \* SpecSeed: seeding calls on one Game
MaxPassX == 3      \* SpecPass: extents of the board
MaxPassY == 2

\* usize::MAX, the value 0 - 1 wraps to in a release build.  It is only ever
\* compared with an index or used as one, so any number above every index
\* stands for it.
USIZE_MAX == 2147483647

OK == "ok"
PanicCoordinate == "panic: unexpected input coordinate"
PanicIndex == "panic: index out of bounds"
PanicOverflow == "panic: attempt to subtract with overflow"

(***************************************************************************)
(* make_board, clear_board                                                 *)
(***************************************************************************)
\* mutant: the two extents taken in the other order
make_board_transposed(xs, ys) == [x \in 0..(ys - 1) |-> [y \in 0..(xs - 1) |-> FALSE]]

make_board(xs, ys) == [x \in 0..(xs - 1) |-> [y \in 0..(ys - 1) |-> FALSE]]

clear_board(board) == [x \in DOMAIN board |-> [y \in DOMAIN board[x] |-> FALSE]]

\* board[x][y] is inside the vectors (otherwise the index expression panics)
InBoard(board, x, y) == x \in DOMAIN board /\ y \in DOMAIN board[x]

(***************************************************************************)
(* BoardSize: the eight neighbour translations, in usize arithmetic.       *)
(***************************************************************************)
\* a - b on usize: wraps below zero (release build)
usize_sub(a, b) == IF a >= b THEN a - b ELSE (USIZE_MAX + (a - b)) + 1

\* mutant: the decrement stopping at the edge instead of wrapping to size - 1
prev_index_clamped(v, size) == IF v = 0 THEN 0 ELSE usize_sub(v, 1)

\* `if v == 0 { size - 1 } else { v - 1 }`
prev_index(v, size) == IF v = 0 THEN usize_sub(size, 1) ELSE usize_sub(v, 1)

\* mutant: the increment without the wrap to 0
next_index_nowrap(v, size) == v + 1

\* `if v == size - 1 { 0 } else { v + 1 }`
next_index(v, size) == IF v = usize_sub(size, 1) THEN 0 ELSE v + 1

\* the subtractions the two expressions evaluate, and whether one goes below 0
prev_underflows(v, size) == IF v = 0 THEN size < 1 ELSE v < 1
next_underflows(v, size) == size < 1

top_left(x, y) == <<prev_index(x, x_size), prev_index(y, y_size)>>
top(x, y) == <<x, prev_index(y, y_size)>>
top_right(x, y) == <<next_index(x, x_size), prev_index(y, y_size)>>

\* mutant: left translates by (1, 0), as right does
left_as_right(x, y) == <<next_index(x, x_size), y>>

left(x, y) == <<prev_index(x, x_size), y>>
right(x, y) == <<next_index(x, x_size), y>>
bottom_left(x, y) == <<prev_index(x, x_size), next_index(y, y_size)>>
bottom(x, y) == <<x, next_index(y, y_size)>>
bottom_right(x, y) == <<next_index(x, x_size), next_index(y, y_size)>>

\* the eight cells is_live reads, in the order it reads them
checks(x, y) ==
    << top_left(x, y), top(x, y), top_right(x, y), left(x, y), right(x, y),
       bottom_left(x, y), bottom(x, y), bottom_right(x, y) >>

(***************************************************************************)
(* Game::is_live                                                           *)
(***************************************************************************)
\* a subtraction of is_live(x, y) goes below zero (a panic in a debug build)
is_live_underflows(x, y) ==
    \/ prev_underflows(x, x_size) \/ next_underflows(x, x_size)
    \/ prev_underflows(y, y_size) \/ next_underflows(y, y_size)

\* an index expression of is_live(x, y) is outside the board
is_live_out_of_range(board, x, y) ==
    LET check == checks(x, y)
    IN  \/ \E i \in 1..8 : ~InBoard(board, check[i][1], check[i][2])
        \/ ~InBoard(board, x, y)

\* mutant: each live neighbouring cell counted once, however many of the
\* eight directions lead to it
live_neighbors_distinct(board, x, y) ==
    LET check == checks(x, y)
    IN  Cardinality({check[i] : i \in {j \in 1..8 : board[check[j][1]][check[j][2]]}})

live_neighbors(board, x, y) ==
    LET check == checks(x, y)
    IN  Cardinality({i \in 1..8 : board[check[i][1]][check[i][2]]})

\* mutant: the arm `(true, 2 | 3) => true` written `(true, 2) => true`
is_live_survive_on_two(board, x, y) ==
    LET n == live_neighbors(board, x, y)
        alive == board[x][y]
    IN  (alive /\ n = 2) \/ (~alive /\ n = 3)

\* mutant: the arm `(false, 3) => true` written `(false, 2 | 3) => true`
is_live_born_on_two(board, x, y) ==
    LET n == live_neighbors(board, x, y)
        alive == board[x][y]
    IN  n \in {2, 3}

is_live(board, x, y) ==
    LET n == live_neighbors(board, x, y)
        alive == board[x][y]
    IN  IF alive /\ n \in {0, 1} THEN FALSE
        ELSE IF alive /\ n \in {2, 3} THEN TRUE
        ELSE IF ~alive /\ n = 3 THEN TRUE
        ELSE FALSE

(***************************************************************************)
(* Game::iterate, Game::run                                                *)
(***************************************************************************)
\* mutant: the inclusive range `0..=self.size.x_size`
x_range_inclusive == 0..x_size

\* `0..self.size.x_size`, `0..self.size.y_size`
x_range == 0..(x_size - 1)
y_range == 0..(y_size - 1)

\* the panic, if any, of the loop body `self.current[x][y] = self.is_live(x, y)`.
\* A subtraction below zero panics in a debug build; a release build wraps it
\* to usize::MAX, which is then no index of the board.  Either way the body
\* does not complete, and the status names the first fault.
body_panic(prev, cur, x, y) ==
    IF is_live_underflows(x, y) THEN PanicOverflow
    ELSE IF is_live_out_of_range(prev, x, y) \/ ~InBoard(cur, x, y) THEN PanicIndex
    ELSE OK

\* (a, b) comes before (x, y) in the order of the nested loops
Before(a, b, x, y) == a < x \/ (a = x /\ b < y)

\* mutant: iterate without the mem::swap
iterate_noswap(g) ==
    [ previous |-> g.previous,
      current |-> [x \in DOMAIN g.current |-> [y \in DOMAIN g.current[x] |->
                      is_live(g.previous, x, y)]],
      status |-> OK ]

\* mutant: iterate without clear_board, writing only the cells that live
iterate_stale(g) ==
    [ previous |-> g.current,
      current |-> [x \in DOMAIN g.previous |-> [y \in DOMAIN g.previous[x] |->
                      g.previous[x][y] \/ is_live(g.current, x, y)]],
      status |-> OK ]

iterate(g) ==
    LET prev == g.current                  \* mem::swap
        cleared == clear_board(g.previous) \* clear_board(&mut self.current)
        bad == {p \in x_range \X y_range : body_panic(prev, cleared, p[1], p[2]) # OK}
        first == CHOOSE p \in bad : \A q \in bad : q = p \/ Before(p[1], p[2], q[1], q[2])
        done(x, y) == /\ x \in x_range /\ y \in y_range
                      /\ (bad = {} \/ Before(x, y, first[1], first[2]))
    IN  [ previous |-> prev,
          current |-> [x \in DOMAIN cleared |-> [y \in DOMAIN cleared[x] |->
                          IF done(x, y) THEN is_live(prev, x, y) ELSE cleared[x][y]]],
          status |-> IF bad = {} THEN OK
                     ELSE body_panic(prev, cleared, first[1], first[2]) ]

\* mutant: run leaves the loop as soon as an iterate would not change current
RECURSIVE run_until_stable(_, _)
run_until_stable(g, iterations) ==
    IF iterations = 0 \/ g.status # OK \/ iterate(g).current = g.current THEN g
    ELSE run_until_stable(iterate(g), iterations - 1)

RECURSIVE run(_, _)
run(g, iterations) ==
    IF iterations = 0 \/ g.status # OK THEN g
    ELSE run(iterate(g), iterations - 1)

(***************************************************************************)
(* Game::clear, Game::clear_and_set, Game::set, Game::cell                 *)
(***************************************************************************)
\* mutant: clear without clear_board(&mut self.previous)
clear_current_only(g) ==
    [previous |-> g.previous, current |-> clear_board(g.current), status |-> OK]

clear(g) ==
    [previous |-> clear_board(g.previous), current |-> clear_board(g.current),
     status |-> OK]

\* `if x > self.size.x_size || y > self.size.y_size`
rejected(x, y) == x > x_size \/ y > y_size

\* the loop `for (x, y) in pairs { ... self.current[x][y] = true }`, from pairs[i]
RECURSIVE set_from(_, _, _)
set_from(g, pairs, i) ==
    IF i > Len(pairs) THEN g
    ELSE LET x == pairs[i][1]
             y == pairs[i][2]
         IN  IF rejected(x, y) THEN [g EXCEPT !.status = PanicCoordinate]
             ELSE IF ~InBoard(g.current, x, y) THEN [g EXCEPT !.status = PanicIndex]
             ELSE set_from([g EXCEPT !.current[x][y] = TRUE], pairs, i + 1)

\* mutant: set skips the coordinates outside the board
set_lenient(g, pairs) ==
    set_from(g, SelectSeq(pairs, LAMBDA p : InBoard(g.current, p[1], p[2])), 1)

\* mutant: set clears the boards first, as clear_and_set does
set_resetting(g, pairs) == set_from(clear(g), pairs, 1)

\* mutant: set leaves the loop after the first coordinate
set_first_only(g, pairs) ==
    IF pairs = <<>> THEN g ELSE set_from(g, <<pairs[1]>>, 1)

set(g, pairs) == set_from(g, pairs, 1)

\* mutant: clear_and_set clears current and leaves previous as it is
clear_and_set_current_only(g, pairs) ==
    set_from([g EXCEPT !.current = clear_board(g.current)], pairs, 1)

clear_and_set(g, pairs) == set_from(clear(g), pairs, 1)

\* `*game.cell(x, y) = v`
cell(g, x, y, v) ==
    IF ~InBoard(g.current, x, y) THEN [g EXCEPT !.status = PanicIndex]
    ELSE [g EXCEPT !.current[x][y] = v]

(***************************************************************************)
(* The Game as a state machine                                             *)
(***************************************************************************)
Here == [previous |-> previous, current |-> current, status |-> status]

NoArg == [pairs |-> <<>>, n |-> 0, v |-> FALSE]

\* Game::new(xs, ys)
new(xs, ys) ==
    /\ x_size = xs
    /\ y_size = ys
    /\ previous = make_board(xs, ys)
    /\ current = make_board(xs, ys)
    /\ status = OK
    /\ op = "new"
    /\ arg = NoArg
    /\ out = <<>>
    /\ iters = 0
    /\ trail = <<>>

\* an operation o with argument a that leaves the Game as r; a Game that
\* panicked is gone
Do(o, a, r) ==
    /\ status = OK
    /\ previous' = r.previous
    /\ current' = r.current
    /\ status' = r.status
    /\ op' = o
    /\ arg' = a
    /\ out' = <<>>
    /\ UNCHANGED <<x_size, y_size>>

\* coordinates a caller may give: in range, equal to the extent, beyond it
Coords == (0..(x_size + 1)) \X (0..(y_size + 1))

PairSeqs == UNION {[1..n -> Coords] : n \in 0..MaxPairs}

Iterate ==
    /\ Do("iterate", NoArg, iterate(Here))
    /\ UNCHANGED <<iters, trail>>

Run ==
    \E n \in 0..MaxIters :
        /\ Do("run", [NoArg EXCEPT !.n = n], run(Here, n))
        /\ UNCHANGED <<iters, trail>>

Clear ==
    /\ Do("clear", NoArg, clear(Here))
    /\ UNCHANGED <<iters, trail>>

ClearAndSet ==
    \E pairs \in PairSeqs :
        /\ Do("clear_and_set", [NoArg EXCEPT !.pairs = pairs], clear_and_set(Here, pairs))
        /\ UNCHANGED <<iters, trail>>

Set ==
    \E pairs \in PairSeqs :
        /\ Do("set", [NoArg EXCEPT !.pairs = pairs], set(Here, pairs))
        /\ UNCHANGED <<iters, trail>>

Cell ==
    \E x \in 0..x_size, y \in 0..y_size, v \in BOOLEAN :
        /\ Do("cell", [NoArg EXCEPT !.pairs = <<<<x, y>>>>, !.v = v], cell(Here, x, y, v))
        /\ UNCHANGED <<iters, trail>>

\* the getters: `self.size.x_size`, `self.size.y_size`
XSize ==
    /\ status = OK
    /\ op' = "x_size"
    /\ arg' = NoArg
    /\ out' = <<x_size>>
    /\ UNCHANGED <<x_size, y_size, previous, current, status, iters, trail>>

YSize ==
    /\ status = OK
    /\ op' = "y_size"
    /\ arg' = NoArg
    /\ out' = <<y_size>>
    /\ UNCHANGED <<x_size, y_size, previous, current, status, iters, trail>>

Init == \E xs \in 0..MaxX, ys \in 0..MaxY : new(xs, ys)

Next == Iterate \/ Run \/ Clear \/ ClearAndSet \/ Set \/ Cell \/ XSize \/ YSize

Spec == Init /\ [][Next]_vars

(***************************************************************************)
(* SpecStep: a new Game of up to MaxStepX x MaxStepY cells is seeded with  *)
(* any set of its cells and then iterated.                                 *)
(***************************************************************************)
\* the cells of S as the nested loops of main.rs and iterate visit them
RECURSIVE in_order(_)
in_order(S) ==
    IF S = {} THEN <<>>
    ELSE LET p == CHOOSE p \in S : \A q \in S : q = p \/ Before(p[1], p[2], q[1], q[2])
         IN  <<p>> \o in_order(S \ {p})

Populate ==
    /\ op = "new"
    /\ \E S \in SUBSET (x_range \X y_range) :
          Do("set", [NoArg EXCEPT !.pairs = in_order(S)], set(Here, in_order(S)))
    /\ UNCHANGED <<iters, trail>>

InitStep == \E xs \in 0..MaxStepX, ys \in 0..MaxStepY : new(xs, ys)

NextStep == Populate \/ Iterate

SpecStep == InitStep /\ [][NextStep]_vars

(***************************************************************************)
(* SpecTopo: the eight methods of BoardSize, called on in-range cells.     *)
(***************************************************************************)
DirNames ==
    << "top_left", "top", "top_right", "left", "right",
       "bottom_left", "bottom", "bottom_right" >>

Neighbor ==
    \E d \in 1..8, x \in x_range, y \in y_range :
        /\ op' = DirNames[d]
        /\ arg' = [NoArg EXCEPT !.pairs = <<<<x, y>>>>]
        /\ out' = checks(x, y)[d]
        /\ UNCHANGED <<x_size, y_size, previous, current, status, iters, trail>>

InitTopo == \E xs \in 1..MaxStepX, ys \in 1..MaxStepY : new(xs, ys)

SpecTopo == InitTopo /\ [][Neighbor]_vars

(***************************************************************************)
(* SpecScenario: the two tests of iterate, test_iterate_blinker and        *)
(* test_iterate_block, continued for MaxSteps calls of iterate.            *)
(***************************************************************************)
BlinkerPairs == << <<2, 1>>, <<2, 2>>, <<2, 3>> >>
BlockPairs == << <<1, 1>>, <<2, 1>>, <<1, 2>>, <<2, 2>> >>

IsBlinkerGame == x_size = 5 /\ y_size = 5
IsBlockGame == x_size = 4 /\ y_size = 4

ScenarioSeed ==
    /\ op = "new"
    /\ LET pairs == IF IsBlinkerGame THEN BlinkerPairs ELSE BlockPairs
       IN  Do("set", [NoArg EXCEPT !.pairs = pairs], set(Here, pairs))
    /\ iters' = 0
    /\ UNCHANGED trail

ScenarioStep ==
    /\ op # "new"
    /\ iters < MaxSteps
    /\ Do("iterate", NoArg, iterate(Here))
    /\ iters' = iters + 1
    /\ UNCHANGED trail

InitScenario == new(5, 5) \/ new(4, 4)

NextScenario == ScenarioSeed \/ ScenarioStep

SpecScenario == InitScenario /\ [][NextScenario]_vars

(***************************************************************************)
(* SpecSeed: up to MaxSeedCalls calls of set and clear_and_set on a new    *)
(* Game, the earlier calls kept in trail.                                  *)
(***************************************************************************)
SeedCalls == IF op = "new" THEN 0 ELSE Len(trail) + 1

Remember ==
    trail' = IF op = "new" THEN <<>> ELSE Append(trail, [op |-> op, arg |-> arg])

SeedReset ==
    /\ SeedCalls < MaxSeedCalls
    /\ \E pairs \in PairSeqs :
          Do("clear_and_set", [NoArg EXCEPT !.pairs = pairs], clear_and_set(Here, pairs))
    /\ Remember
    /\ UNCHANGED iters

SeedAdditive ==
    /\ SeedCalls < MaxSeedCalls
    /\ \E pairs \in PairSeqs :
          Do("set", [NoArg EXCEPT !.pairs = pairs], set(Here, pairs))
    /\ Remember
    /\ UNCHANGED iters

NextSeed == SeedReset \/ SeedAdditive

SpecSeed == Init /\ [][NextSeed]_vars

(***************************************************************************)
(* SpecPass: the loop of iterate taken apart.  After the swap and the      *)
(* clear_board, the statement `self.current[x][y] = self.is_live(x, y)` is *)
(* an evaluation of its right side and a write of the value, once for each *)
(* cell.  Here the evaluations and the writes of the cells happen in any   *)
(* order and interleaving; the code's nested loops are one of the orders.  *)
(* `out` holds the position of the pass: the cells not yet evaluated and   *)
(* the values evaluated and not yet written.  `trail` remembers the Game   *)
(* the pass began with.                                                    *)
(***************************************************************************)
\* mutant: the right side evaluated on the board being written
eval_cell_in_place(g, x, y) == is_live(g.current, x, y)

\* the right side `self.is_live(x, y)`
eval_cell(g, x, y) == is_live(g.previous, x, y)

\* the assignment `self.current[x][y] = ...`
write_cell(g, x, y, v) == [g EXCEPT !.current[x][y] = v]

PassBegin ==
    /\ status = OK
    /\ op # "pass"
    /\ previous' = current
    /\ current' = clear_board(previous)
    /\ op' = "pass"
    /\ out' = [pending |-> x_range \X y_range, flight |-> {}]
    /\ trail' = <<Here>>
    /\ UNCHANGED <<x_size, y_size, status, arg, iters>>

Eval ==
    /\ op = "pass"
    /\ status = OK
    /\ \E p \in out.pending :
          /\ status' = body_panic(previous, current, p[1], p[2])
          /\ out' = [pending |-> out.pending \ {p},
                     flight |-> IF status' = OK
                                THEN out.flight \cup {<<p, eval_cell(Here, p[1], p[2])>>}
                                ELSE out.flight]
    /\ UNCHANGED <<x_size, y_size, previous, current, op, arg, iters, trail>>

Write ==
    /\ op = "pass"
    /\ status = OK
    /\ \E w \in out.flight :
          /\ current' = write_cell(Here, w[1][1], w[1][2], w[2]).current
          /\ out' = [out EXCEPT !.flight = out.flight \ {w}]
    /\ UNCHANGED <<x_size, y_size, previous, status, op, arg, iters, trail>>

PassEnd ==
    /\ op = "pass"
    /\ status = OK
    /\ out.pending = {}
    /\ out.flight = {}
    /\ op' = "iterate"
    /\ out' = <<>>
    /\ UNCHANGED <<x_size, y_size, previous, current, status, arg, iters, trail>>

InitPass == \E xs \in 0..MaxPassX, ys \in 0..MaxPassY : new(xs, ys)

NextPass == Populate \/ PassBegin \/ Eval \/ Write \/ PassEnd

SpecPass == InitPass /\ [][NextPass]_vars

(***************************************************************************)
(* What the claims speak of, stated apart from the code above.             *)
(***************************************************************************)
Cells == (0..(x_size - 1)) \X (0..(y_size - 1))

Live(board) == {p \in Cells : board[p[1]][p[2]]}

AllDead(board) == Live(board) = {}

Range(seq) == {seq[i] : i \in 1..Len(seq)}

\* both vectors of a board have the Game's extents
Shape(board) ==
    /\ DOMAIN board = 0..(x_size - 1)
    /\ \A x \in DOMAIN board : DOMAIN board[x] = 0..(y_size - 1)

\* the eight directions as offsets, and the cell (x + dx, y + dy) on the torus
Offsets == {d \in {-1, 0, 1} \X {-1, 0, 1} : d # <<0, 0>>}

Torus(x, y, d) == <<(x + d[1]) % x_size, (y + d[2]) % y_size>>

\* the number of directions whose target cell is alive
NeighbourCount(board, x, y) ==
    Cardinality({d \in Offsets : board[Torus(x, y, d)[1]][Torus(x, y, d)[2]]})

\* B3/S23
Rule(alive, n) == (alive /\ n \in {2, 3}) \/ (~alive /\ n = 3)

Successor(board) ==
    [x \in DOMAIN board |-> [y \in DOMAIN board[x] |->
        Rule(board[x][y], NeighbourCount(board, x, y))]]

SeedOps == {"set", "clear_and_set"}

\* a coordinate outside the board, the boundary values included
OutOfRange(p) == p[1] >= x_size \/ p[2] >= y_size

(***************************************************************************)
(* C1: after one iterate() every cell of current is alive exactly when, in *)
(* the board that was current before the call, it was alive with 2 or 3    *)
(* live neighbour directions or dead with exactly 3; otherwise it is dead. *)
(***************************************************************************)
C1_StepAppliesRule ==
    [][op' = "iterate" =>
          /\ status' = OK
          /\ \A p \in Cells :
                current'[p[1]][p[2]]
                    = Rule(current[p[1]][p[2]], NeighbourCount(current, p[1], p[2]))]_vars

\* a step of a board with eight distinct neighbours per cell in which one
\* cell survived and another was born
C1_Witness ==
    /\ op = "iterate"
    /\ x_size >= 3 /\ y_size >= 3
    /\ \E p, q \in Cells :
          /\ previous[p[1]][p[2]] /\ current[p[1]][p[2]]
          /\ ~previous[q[1]][q[2]] /\ current[q[1]][q[2]]

(***************************************************************************)
(* C2: each of the eight BoardSize methods, on an in-range (x, y), returns *)
(* ((x + dx) mod x_size, (y + dy) mod y_size) for its offset (dx, dy): 0   *)
(* decrements to extent - 1, extent - 1 increments to 0, and the result is *)
(* in range, also when an extent is 1.                                     *)
(***************************************************************************)
DirOffsets ==
    << <<-1, -1>>, <<0, -1>>, <<1, -1>>, <<-1, 0>>, <<1, 0>>,
       <<-1, 1>>, <<0, 1>>, <<1, 1>> >>

\* one axis of the wrap rule, written out
WrapRule(v, d, size, w) ==
    /\ (d = -1 /\ v = 0) => w = size - 1
    /\ (d = -1 /\ v # 0) => w = v - 1
    /\ (d = 1 /\ v = size - 1) => w = 0
    /\ (d = 1 /\ v # size - 1) => w = v + 1
    /\ d = 0 => w = v

C2_NeighbourIsModular ==
    \A d \in 1..8 :
        op = DirNames[d] =>
            LET x == arg.pairs[1][1]
                y == arg.pairs[1][2]
            IN  /\ out = Torus(x, y, DirOffsets[d])
                /\ WrapRule(x, DirOffsets[d][1], x_size, out[1])
                /\ WrapRule(y, DirOffsets[d][2], y_size, out[2])
                /\ out \in Cells

\* bottom_right of the last cell of a board one column wide wraps on both axes
C2_Witness ==
    /\ op = "bottom_right"
    /\ x_size = 1 /\ y_size > 1
    /\ arg.pairs[1] = <<0, y_size - 1>>
    /\ out = <<0, 0>>

(***************************************************************************)
(* C3: after every iterate(), previous holds cell for cell what current    *)
(* held just before the call, and current holds only what the rule makes   *)
(* of that board: nothing of the board of two generations back survives.   *)
(***************************************************************************)
C3_BufferRotation ==
    [][op' = "iterate" =>
          /\ previous' = current
          /\ current' = Successor(current)]_vars

\* a step that changed a board with live cells
C3_Witness ==
    /\ op = "iterate"
    /\ ~AllDead(previous)
    /\ ~AllDead(current)
    /\ current # previous

(***************************************************************************)
(* C4: the blinker of test_iterate_blinker has period 2: after an odd      *)
(* number of iterate() calls the live cells are (1,2),(2,2),(3,2), after   *)
(* an even number (2,1),(2,2),(2,3).                                       *)
(***************************************************************************)
C4_BlinkerOscillates ==
    (IsBlinkerGame /\ op # "new") =>
        Live(current) = IF iters % 2 = 1
                        THEN {<<1, 2>>, <<2, 2>>, <<3, 2>>}
                        ELSE {<<2, 1>>, <<2, 2>>, <<2, 3>>}

C4_Witness ==
    /\ IsBlinkerGame
    /\ op = "iterate"
    /\ iters >= 3 /\ iters % 2 = 1
    /\ Live(current) = {<<1, 2>>, <<2, 2>>, <<3, 2>>}
    /\ Live(previous) = {<<2, 1>>, <<2, 2>>, <<2, 3>>}

(***************************************************************************)
(* C5: set and clear_and_set, given a coordinate with x >= x_size or       *)
(* y >= y_size (x = x_size and y = y_size included), end in a panic and    *)
(* write no cell outside the boards.                                       *)
(***************************************************************************)
C5_OutOfRangeSeedFails ==
    (op \in SeedOps /\ \E i \in 1..Len(arg.pairs) : OutOfRange(arg.pairs[i])) =>
        /\ status # OK
        /\ Shape(current)
        /\ Shape(previous)

\* the boundary value x = x_size passes the check of set and fails at the index
C5_Witness ==
    /\ op = "set"
    /\ x_size >= 1 /\ y_size >= 1
    /\ \E i \in 1..Len(arg.pairs) : arg.pairs[i] = <<x_size, 0>>
    /\ status = PanicIndex

(***************************************************************************)
(* C6: when set or clear_and_set fails on an out-of-range coordinate, both *)
(* boards are cell for cell as they were before the call.                  *)
(***************************************************************************)
C6_NoPartialMutation ==
    [][(op' \in SeedOps /\ status' # OK) =>
          (current' = current /\ previous' = previous)]_vars

(***************************************************************************)
(* C7, as claimed: clear_and_set(A) followed by set(B), both in range,     *)
(* leaves exactly the cells of B alive.                                    *)
(***************************************************************************)
ResetThenAdditive ==
    /\ op = "set"
    /\ status = OK
    /\ trail # <<>>
    /\ trail[Len(trail)].op = "clear_and_set"

C7_OnlySecondSet ==
    ResetThenAdditive => Live(current) = Range(arg.pairs)

(***************************************************************************)
(* C7, amended: clear_and_set(A) followed by set(B), both in range, leaves *)
(* exactly the cells of A and of B alive.                                  *)
(***************************************************************************)
C7_ResetThenAdditiveIsUnion ==
    ResetThenAdditive =>
        Live(current) = Range(trail[Len(trail)].arg.pairs) \cup Range(arg.pairs)

\* a cell of A that is not in B is alive after the two calls
C7_Witness ==
    /\ ResetThenAdditive
    /\ Range(arg.pairs) # {}
    /\ \E p \in Range(trail[Len(trail)].arg.pairs) :
          p \notin Range(arg.pairs) /\ current[p[1]][p[2]]

(***************************************************************************)
(* C8, as claimed: between operations, either current is the successor of  *)
(* previous, or the last operation was a seed or clear operation and       *)
(* previous is all dead.                                                   *)
(***************************************************************************)
C8_PreviousProducedCurrent ==
    status = OK =>
        \/ current = Successor(previous)
        \/ op \in {"set", "clear_and_set", "clear"} /\ AllDead(previous)

(***************************************************************************)
(* C8, amended: after new, iterate and run(n) with n >= 1, current is the  *)
(* successor of previous; after clear and clear_and_set, previous is all   *)
(* dead.  (After set, a write through cell, or run(0), neither need hold.) *)
(***************************************************************************)
C8_PreviousProducedCurrentAfterStep ==
    /\ (op \in {"new", "iterate"} \/ (op = "run" /\ arg.n >= 1)) =>
          current = Successor(previous)
    /\ op \in {"clear", "clear_and_set"} => AllDead(previous)

C8_Witness ==
    /\ op = "run"
    /\ arg.n >= 1
    /\ ~AllDead(previous)
    /\ ~AllDead(current)

(***************************************************************************)
(* C9: if every cell of current is dead, every cell of current is dead     *)
(* after iterate(), hence after any number of calls, whatever previous     *)
(* held.                                                                   *)
(***************************************************************************)
C9_EmptyStaysEmpty ==
    [][(op' = "iterate" /\ AllDead(current)) => AllDead(current')]_vars

\* an all-dead board was iterated: previous is that board
C9_Witness ==
    /\ op = "iterate"
    /\ x_size >= 2 /\ y_size >= 2
    /\ AllDead(previous)
    /\ AllDead(current)

(***************************************************************************)
(* C10: iterate, run and clear never panic, whatever the extents (0 and 1  *)
(* included) and the boards: no index is out of range and no subtraction   *)
(* x_size - 1, y_size - 1 goes below zero.                                 *)
(***************************************************************************)
C10_StepRunClearNeverFail ==
    op \in {"iterate", "run", "clear"} => status = OK

\* run on a Game with no columns
C10_Witness ==
    /\ op = "run"
    /\ arg.n >= 1
    /\ x_size = 0 /\ y_size >= 1
    /\ status = OK

(***************************************************************************)
(* C11: the block of test_iterate_block is a still life: after the first   *)
(* iterate() and after every further one the live cells are exactly        *)
(* (1,1),(2,1),(1,2),(2,2).                                                *)
(***************************************************************************)
C11_BlockIsStill ==
    (IsBlockGame /\ op # "new") =>
        Live(current) = {<<1, 1>>, <<2, 1>>, <<1, 2>>, <<2, 2>>}

C11_Witness ==
    /\ IsBlockGame
    /\ op = "iterate"
    /\ iters >= 2
    /\ Live(current) = {<<1, 1>>, <<2, 1>>, <<1, 2>>, <<2, 2>>}
    /\ Live(previous) = Live(current)

\* the board whose only live cell is p
OnlyLive(p) ==
    [x \in x_range |-> [y \in y_range |-> <<x, y>> = p]]

(***************************************************************************)
(* C12: the neighbour relation is symmetric across every edge and corner:  *)
(* when the d-th BoardSize method takes a to b, the method of the opposite *)
(* direction takes b back to a, and a lone live cell at either of the two  *)
(* is counted among the live neighbours of the other.  The methods are     *)
(* listed in `checks` so that the opposite of the d-th is the (9 - d)-th.  *)
(***************************************************************************)
C12_NeighbourIsSymmetric ==
    \A d \in 1..8 :
        op = DirNames[d] =>
            LET a == arg.pairs[1]
                b == out
            IN  /\ checks(b[1], b[2])[9 - d] = a
                /\ live_neighbors(OnlyLive(a), b[1], b[2]) >= 1
                /\ live_neighbors(OnlyLive(b), a[1], a[2]) >= 1

\* the corner (0, 0) and the opposite corner, on a board where they are
\* different cells and not side by side
C12_Witness ==
    /\ x_size >= 3
    /\ y_size >= 3
    /\ op = "top_left"
    /\ arg.pairs[1] = <<0, 0>>
    /\ out = <<x_size - 1, y_size - 1>>
    /\ checks(x_size - 1, y_size - 1)[8] = <<0, 0>>

(***************************************************************************)
(* C13: set adds without clearing: called from any state with coordinates  *)
(* that are all inside the board, it succeeds, the live cells of current   *)
(* are afterwards those alive before together with the coordinates, and    *)
(* previous is as it was.                                                  *)
(***************************************************************************)
C13_SetAddsToCurrent ==
    [][(op' = "set" /\ \A p \in Range(arg'.pairs) : ~OutOfRange(p)) =>
          /\ status' = OK
          /\ Live(current') = Live(current) \cup Range(arg'.pairs)
          /\ previous' = previous]_vars

\* a set of two cells that left an older live cell alive, on a Game whose
\* previous board was not empty
C13_Witness ==
    /\ op = "set"
    /\ status = OK
    /\ Cardinality(Range(arg.pairs)) = 2
    /\ Live(current) \ Range(arg.pairs) # {}
    /\ ~AllDead(previous)

(***************************************************************************)
(* C14: from any state, clear_and_set with coordinates that are all inside *)
(* the board succeeds and leaves previous all dead and the live cells of   *)
(* current exactly the coordinates; clear leaves every cell of both boards *)
(* dead, which is what clear_and_set of no coordinates does.               *)
(***************************************************************************)
C14_ResetAndClear ==
    [][/\ (op' = "clear_and_set" /\ \A p \in Range(arg'.pairs) : ~OutOfRange(p)) =>
              /\ status' = OK
              /\ AllDead(previous')
              /\ Live(current') = Range(arg'.pairs)
       /\ op' = "clear" =>
              /\ status' = OK
              /\ AllDead(previous')
              /\ AllDead(current')
              /\ [previous |-> previous', current |-> current', status |-> status']
                    = clear_and_set(Here, <<>>)]_vars

\* a clear_and_set that left one live cell on a 2x2 board
C14_Witness ==
    /\ op = "clear_and_set"
    /\ status = OK
    /\ x_size = 2 /\ y_size = 2
    /\ Cardinality(Live(current)) = 1
    /\ Live(current) = Range(arg.pairs)
    /\ AllDead(previous)

\* n calls of iterate, one after the other
RECURSIVE Times(_, _)
Times(g, n) == IF n = 0 THEN g ELSE iterate(Times(g, n - 1))

(***************************************************************************)
(* C15: run(n) is n calls of iterate, none left out: both boards are after *)
(* it what n successive iterate calls leave, also when the board stopped   *)
(* changing before the n-th of them; run(0) leaves both boards as they     *)
(* were.                                                                   *)
(***************************************************************************)
C15_RunIsNSteps ==
    [][op' = "run" =>
          /\ [previous |-> previous', current |-> current', status |-> status']
                = Times(Here, arg'.n)
          /\ arg'.n = 0 => (previous' = previous /\ current' = current)
          /\ arg'.n > 0 =>
                (previous' = Times(Here, arg'.n - 1).current /\ status' = OK)]_vars

\* a run of two steps whose second step found a live board already stable,
\* and went on to copy it into previous
C15_Witness ==
    /\ op = "run"
    /\ arg.n = 2
    /\ ~AllDead(current)
    /\ previous = current

(***************************************************************************)
(* C16: the extents are fixed for the life of a Game: no operation changes *)
(* them, x_size() and y_size() return them, and previous and current each  *)
(* have x_size columns of y_size cells in every state, so that the getters *)
(* always tell the extents of the vectors.                                 *)
(***************************************************************************)
C16_DimensionsFixed ==
    /\ [](/\ Shape(current)
          /\ Shape(previous)
          /\ op = "x_size" =>
                /\ out = <<x_size>>
                /\ Cardinality(DOMAIN current) = out[1]
                /\ Cardinality(DOMAIN previous) = out[1]
          /\ op = "y_size" =>
                /\ out = <<y_size>>
                /\ \A x \in DOMAIN current :
                      /\ Cardinality(DOMAIN current[x]) = out[1]
                      /\ Cardinality(DOMAIN previous[x]) = out[1])
    /\ [][x_size' = x_size /\ y_size' = y_size]_vars

\* x_size() asked of a board that is not square, after steps that rotated
\* the boards and left both with live cells
C16_Witness ==
    /\ op = "x_size"
    /\ out = <<x_size>>
    /\ x_size # y_size
    /\ x_size >= 1 /\ y_size >= 1
    /\ ~AllDead(previous)
    /\ ~AllDead(current)

\* every board of the Game's extents
Boards == [x_range -> [y_range -> BOOLEAN]]

(***************************************************************************)
(* C17: what iterate() leaves depends on current alone: a second Game with *)
(* the same current board and any other previous board has, after its own  *)
(* iterate(), the same current and the same previous as this one.          *)
(***************************************************************************)
C17_StepIgnoresPrevious ==
    [][op' = "iterate" =>
          \A other \in Boards :
              LET twin == iterate([Here EXCEPT !.previous = other])
              IN  /\ twin.current = current'
                  /\ twin.previous = previous'
                  /\ twin.status = status']_vars

\* a step taken while previous still held live cells that the step then
\* left dead, on a board with eight distinct neighbours per cell
C17_Witness ==
    /\ op = "iterate"
    /\ x_size >= 3 /\ y_size >= 3
    /\ Cardinality(Live(previous)) = 9
    /\ AllDead(current)

\* the number of the eight directions that lead from p to c on the torus,
\* and the sum of these numbers over the cells of S
Multiplicity(p, c) == Cardinality({d \in Offsets : Torus(p[1], p[2], d) = c})

RECURSIVE MultiplicitySum(_, _)
MultiplicitySum(p, S) ==
    IF S = {} THEN 0
    ELSE LET c == CHOOSE c \in S : TRUE
         IN  Multiplicity(p, c) + MultiplicitySum(p, S \ {c})

(***************************************************************************)
(* C19: the live neighbours of a cell are counted per direction: a live    *)
(* cell that several of the eight directions lead to counts once for each  *)
(* of them, the cell itself included when a direction leads back to it.  A *)
(* live cell on a 1x1 board therefore counts 8 and is dead after one       *)
(* iterate(), and a 2x2 board with all four cells alive is all dead after  *)
(* one iterate().                                                          *)
(***************************************************************************)
C19_CountedPerDirection ==
    [][op' = "iterate" =>
          /\ \A p \in Cells :
                live_neighbors(current, p[1], p[2]) = MultiplicitySum(p, Live(current))
          /\ (x_size = 1 /\ y_size = 1 /\ current[0][0]) =>
                /\ live_neighbors(current, 0, 0) = 8
                /\ Multiplicity(<<0, 0>>, <<0, 0>>) = 8
                /\ ~current'[0][0]
          /\ (x_size = 2 /\ y_size = 2 /\ Live(current) = Cells) =>
                /\ \A p \in Cells : live_neighbors(current, p[1], p[2]) = 8
                /\ AllDead(current')]_vars

\* the step of the 2x2 board that had all four cells alive
C19_Witness ==
    /\ op = "iterate"
    /\ x_size = 2 /\ y_size = 2
    /\ Live(previous) = Cells
    /\ AllDead(current)

\* the board moved by (a, b) on the torus: the cell at (x, y) goes to
\* ((x + a) mod x_size, (y + b) mod y_size)
Shift(board, a, b) ==
    [x \in DOMAIN board |-> [y \in DOMAIN board[x] |->
        board[(x - a) % x_size][(y - b) % y_size]]]

(***************************************************************************)
(* C20: iterate() commutes with translation on the torus: for every board  *)
(* and every shift (a, b), stepping the shifted board gives the shifted    *)
(* result of stepping the board, in current and in previous.               *)
(***************************************************************************)
C20_StepCommutesWithShift ==
    [][op' = "iterate" =>
          \A a \in x_range, b \in y_range :
              LET moved == iterate([Here EXCEPT !.current = Shift(current, a, b)])
              IN  /\ moved.status = OK
                  /\ moved.current = Shift(current', a, b)
                  /\ moved.previous = Shift(previous', a, b)]_vars

\* a step of a 3x3 board with a live corner cell, whose neighbourhood lies
\* across both edges, that left a board neither empty nor full
C20_Witness ==
    /\ op = "iterate"
    /\ x_size >= 3 /\ y_size >= 3
    /\ previous[0][0]
    /\ Live(current) # {}
    /\ Live(current) # Cells
    /\ \E a \in x_range, b \in y_range : Shift(current, a, b) # current

\* the cells a pass has written so far
Written == Cells \ (out.pending \cup {w[1] : w \in out.flight})

(***************************************************************************)
(* C18: during the pass of iterate() that recomputes current, previous is  *)
(* never written and every evaluation reads previous alone: whatever the   *)
(* order and interleaving of the evaluations and writes of the cells, each *)
(* value evaluated and each cell written is the one iterate() gives, an    *)
(* unwritten cell is dead, and when the last cell is written both boards   *)
(* are what iterate() leaves.                                              *)
(***************************************************************************)
C18_PassOrderIrrelevant ==
    /\ op = "pass" =>
          LET want == iterate(trail[1])
          IN  /\ status = OK
              /\ previous = trail[1].current
              /\ previous = want.previous
              /\ \A w \in out.flight : w[2] = want.current[w[1][1]][w[1][2]]
              /\ \A p \in Written : current[p[1]][p[2]] = want.current[p[1]][p[2]]
              /\ \A p \in Cells \ Written : ~current[p[1]][p[2]]
    /\ (op = "iterate" /\ trail # <<>>) => Here = iterate(trail[1])

\* a pass out of the order of the loops: the last cell written and alive,
\* another value evaluated and waiting, the first cell not yet evaluated,
\* on a Game whose previous board held live cells when the pass began
C18_Witness ==
    /\ op = "pass"
    /\ x_size = 3 /\ y_size = 2
    /\ <<0, 0>> \in out.pending
    /\ out.flight # {}
    /\ <<2, 1>> \in Written
    /\ current[2][1]
    /\ ~AllDead(trail[1].previous)

====
